---- MODULE Spec2Model ----
(***************************************************************************)
(* SiftTracking.js: a browser-side adapter that builds an event template,  *)
(* side-loads the Sift snippet and POSTs events to the Sift events API.    *)
(* The model covers one page: the adapter instance, window._sift,          *)
(* document.head, the console, the microtask queue and the fetch requests. *)
(* sift0 keeps window._sift as the page had it before construction.        *)
(***************************************************************************)
EXTENDS Naturals, Sequences, FiniteSets

VARIABLES sift0, config, eventData, isInitialized, snippetLoaded,
          window_sift, head, loadPromise, microtasks,
          console, requests, calls, thrown

vars == <<sift0, config, eventData, isInitialized, snippetLoaded,
          window_sift, head, loadPromise, microtasks,
          console, requests, calls, thrown>>

\* Number of sendEvent calls made on the page.
MaxSends == 2

(***************************************************************************)
(* JavaScript values.  Every value is a record [t, s, props]: t is the     *)
(* kind, s the text of a string / the message of an Error, props the own   *)
(* enumerable properties of an object in insertion order.                  *)
(***************************************************************************)
JsString(str) == [t |-> "string", s |-> str, props |-> <<>>]
JsNull == [t |-> "null", s |-> "", props |-> <<>>]
JsUndefined == [t |-> "undefined", s |-> "", props |-> <<>>]
JsBigInt == [t |-> "bigint", s |-> "1", props |-> <<>>]
JsArray == [t |-> "array", s |-> "", props |-> <<>>]
JsObject(members) == [t |-> "object", s |-> "", props |-> members]
JsError(message) == [t |-> "error", s |-> message, props |-> <<>>]
Prop(key, value) == [k |-> key, v |-> value]

\* ToBoolean, as used by !x and ||
ToBoolean(x) ==
    CASE x.t = "string" -> x.s # ""
      [] x.t = "null" -> FALSE
      [] x.t = "undefined" -> FALSE
      [] OTHER -> TRUE

\* Mutant of ObjectPrototypeToString: typeof-like, an array counts as an object.
ObjectPrototypeToStringTypeof(x) ==
    CASE x.t = "object" -> "[object Object]"
      [] x.t = "array" -> "[object Object]"
      [] x.t = "string" -> "[object String]"
      [] x.t = "null" -> "[object Null]"
      [] x.t = "undefined" -> "[object Undefined]"
      [] x.t = "bigint" -> "[object BigInt]"
      [] OTHER -> "[object Error]"

\* Object.prototype.toString.call(x)
ObjectPrototypeToString(x) ==
    CASE x.t = "object" -> "[object Object]"
      [] x.t = "array" -> "[object Array]"
      [] x.t = "string" -> "[object String]"
      [] x.t = "null" -> "[object Null]"
      [] x.t = "undefined" -> "[object Undefined]"
      [] x.t = "bigint" -> "[object BigInt]"
      [] OTHER -> "[object Error]"

\* ToString, as used by template literals
ToString(x) ==
    CASE x.t = "string" -> x.s
      [] x.t = "null" -> "null"
      [] x.t = "undefined" -> "undefined"
      [] x.t = "bigint" -> x.s
      [] x.t = "array" -> ""
      [] x.t = "error" -> IF x.s = "" THEN "Error" ELSE "Error: " \o x.s
      [] OTHER -> "[object Object]"

Keys(members) == {members[i].k : i \in 1..Len(members)}
HasKey(members, key) == key \in Keys(members)
Get(members, key) == members[CHOOSE i \in 1..Len(members) : members[i].k = key].v

\* obj[key] = value on a list of own properties: an existing key keeps its
\* position, a new key goes last.
SetProp(members, key, value) ==
    IF HasKey(members, key)
    THEN [members EXCEPT
            ![CHOOSE i \in 1..Len(members) : members[i].k = key] = Prop(key, value)]
    ELSE Append(members, Prop(key, value))

\* Mutant of Spread: a key the target already has keeps the target's value.
RECURSIVE SpreadKeepsFirst(_, _)
SpreadKeepsFirst(target, source) ==
    IF source = <<>> THEN target
    ELSE SpreadKeepsFirst(
            IF HasKey(target, Head(source).k) THEN target
            ELSE Append(target, Head(source)),
            Tail(source))

\* {...target, ...source}: copy source's own properties onto target, in order.
RECURSIVE Spread(_, _)
Spread(target, source) ==
    IF source = <<>> THEN target
    ELSE Spread(SetProp(target, Head(source).k, Head(source).v), Tail(source))

\* Array.prototype.join() of a list of strings (default separator ",")
RECURSIVE Join(_)
Join(strs) ==
    IF strs = <<>> THEN ""
    ELSE IF Len(strs) = 1 THEN strs[1]
    ELSE strs[1] \o "," \o Join(Tail(strs))

(***************************************************************************)
(* JSON.stringify.  A BigInt anywhere in the value makes it throw a        *)
(* TypeError; a property whose value is undefined is left out; the other   *)
(* values become JSON text.                                                *)
(***************************************************************************)
RECURSIVE JSONThrows(_)
JSONThrows(x) ==
    \/ x.t = "bigint"
    \/ /\ x.t = "object"
       /\ \E i \in 1..Len(x.props) : JSONThrows(x.props[i].v)

RECURSIVE JSONText(_)
RECURSIVE JSONMemberText(_)
\* the members of an object, comma separated, undefined values skipped
JSONMemberText(members) ==
    IF members = <<>> THEN ""
    ELSE LET m == Head(members)
             rest == JSONMemberText(Tail(members))
         IN IF m.v.t = "undefined" THEN rest
            ELSE "\"" \o m.k \o "\":" \o JSONText(m.v)
                 \o (IF rest = "" THEN "" ELSE "," \o rest)
JSONText(x) ==
    CASE x.t = "string" -> "\"" \o x.s \o "\""
      [] x.t = "null" -> "null"
      [] x.t = "array" -> "[]"
      [] x.t = "object" -> "{" \o JSONMemberText(x.props) \o "}"
      [] OTHER -> "{}"

\* The top-level members of JSON.stringify(obj) as <<key, JSON text>> pairs,
\* in the order they are written.
RECURSIVE JSONMembers(_)
JSONMembers(members) ==
    IF members = <<>> THEN <<>>
    ELSE LET m == Head(members)
         IN IF m.v.t = "undefined" THEN JSONMembers(Tail(members))
            ELSE <<Prop(m.k, JSONText(m.v))>> \o JSONMembers(Tail(members))

\* JSON.stringify(obj) for an object: whether it throws, else the document.
JSONstringify(obj) ==
    IF JSONThrows(obj)
    THEN [threw |-> TRUE,
          error |-> JsError("Do not know how to serialize a BigInt"),
          members |-> <<>>]
    ELSE [threw |-> FALSE, error |-> JsUndefined,
          members |-> JSONMembers(obj.props)]

(***************************************************************************)
(* The host environment read by the adapter.                               *)
(***************************************************************************)
navigator == [userAgent |-> "UA", languages |-> <<"en-US", "en">>, language |-> "en-US"]

\* console.log / console.error lines
LogLine(level, text, op, call) == [level |-> level, text |-> text, op |-> op, call |-> call]

\* Mutant of _handleError: logs, then throws the error again.
_handleErrorRethrows(error, method, call) ==
    LET op == IF ToBoolean(method) THEN ToString(method) ELSE "General"
    IN [threw |-> TRUE, error |-> error,
        lines |-> <<LogLine("error",
                            "SiftTracking::" \o op \o ":Error: " \o ToString(error),
                            op, call)>>]

\* _handleError(error, method): builds the line and calls console.error.
\* Reading .message of null or undefined throws a TypeError.
_handleError(error, method, call) ==
    IF error.t \in {"null", "undefined"}
    THEN [threw |-> TRUE,
          error |-> JsError("Cannot read properties of " \o error.t),
          lines |-> <<>>]
    ELSE LET op == IF ToBoolean(method) THEN ToString(method) ELSE "General"
             message == IF error.t = "error" /\ error.s # "" THEN error.s
                        ELSE IF ToBoolean(error) THEN ToString(error)
                        ELSE "UNKNOWN"
         IN [threw |-> FALSE, error |-> JsUndefined,
             lines |-> <<LogLine("error",
                                 "SiftTracking::" \o op \o ":Error: " \o message,
                                 op, call)>>]

(***************************************************************************)
(* Construction.                                                           *)
(***************************************************************************)
\* A microtask: the reaction of a promise chain that is already rejected.
CatchJob(op, error, call) == [op |-> op, error |-> error, call |-> call]

\* <script> element appended to document.head; events records the load /
\* error events the browser has dispatched on it, sift is window._sift as it
\* was when the element was appended.
ScriptElement(src, sift) ==
    [src |-> src, async |-> TRUE, type |-> "text/javascript", events |-> {},
     sift |-> sift]

\* The four commands _loadSnippet pushes, in the order of the code.
_loadSnippetCommands(cfg) ==
    << <<"_setAccount", cfg.snippetKey>>,
       <<"_setUserId", cfg.userId>>,
       <<"_setSessionId", cfg.feid>>,
       <<"_trackPageview">> >>

\* Mutant of _loadSnippetExecutor: the commands are queued before the
\* configuration is checked.
_loadSnippetExecutorPushFirst(cfg, sift, hd) ==
    LET queued == sift \o _loadSnippetCommands(cfg)
    IN IF ~ToBoolean(cfg.feid) \/ ~ToBoolean(cfg.snippetKey) \/ ~ToBoolean(cfg.snippetSrc)
       THEN [threw |-> TRUE, error |-> JsError("invalid config"),
             sift |-> queued, head |-> hd]
       ELSE [threw |-> FALSE, error |-> JsUndefined,
             sift |-> queued,
             head |-> Append(hd, ScriptElement(cfg.snippetSrc.s, queued))]

\* Mutant of _loadSnippetExecutor: the script element is appended before
\* the commands are pushed.
_loadSnippetExecutorInjectsFirst(cfg, sift, hd) ==
    IF ~ToBoolean(cfg.feid) \/ ~ToBoolean(cfg.snippetKey) \/ ~ToBoolean(cfg.snippetSrc)
    THEN [threw |-> TRUE, error |-> JsError("invalid config"),
          sift |-> sift, head |-> hd]
    ELSE [threw |-> FALSE, error |-> JsUndefined,
          sift |-> sift \o _loadSnippetCommands(cfg),
          head |-> Append(hd, ScriptElement(cfg.snippetSrc.s, sift))]

\* Mutant of _loadSnippetExecutor: the configuration is not checked; with
\* an invalid one the script element is still appended, without commands.
_loadSnippetExecutorUnchecked(cfg, sift, hd) ==
    IF ~ToBoolean(cfg.feid) \/ ~ToBoolean(cfg.snippetKey) \/ ~ToBoolean(cfg.snippetSrc)
    THEN [threw |-> FALSE, error |-> JsUndefined,
          sift |-> sift, head |-> Append(hd, ScriptElement(cfg.snippetSrc.s, sift))]
    ELSE LET queued == sift \o _loadSnippetCommands(cfg)
         IN [threw |-> FALSE, error |-> JsUndefined,
             sift |-> queued,
             head |-> Append(hd, ScriptElement(cfg.snippetSrc.s, queued))]

\* The executor passed to new Promise in _loadSnippet.  sift is
\* window._sift before the call (<<>> when the page has none: the code
\* then creates it); the commands are pushed onto it and the script
\* element is appended after the pushes.
_loadSnippetExecutor(cfg, sift, hd) ==
    IF ~ToBoolean(cfg.feid) \/ ~ToBoolean(cfg.snippetKey) \/ ~ToBoolean(cfg.snippetSrc)
    THEN [threw |-> TRUE, error |-> JsError("invalid config"),
          sift |-> sift, head |-> hd]
    ELSE LET queued == sift \o _loadSnippetCommands(cfg)
         IN [threw |-> FALSE, error |-> JsUndefined,
             sift |-> queued,
             head |-> Append(hd, ScriptElement(cfg.snippetSrc.s, queued))]

\* _loadSnippet(): new Promise(executor).  An exception thrown by the
\* executor rejects the promise; otherwise it stays pending until
\* onload / onerror settle it.
_loadSnippet(cfg, sift, hd) ==
    LET ex == _loadSnippetExecutor(cfg, sift, hd)
    IN [threw |-> FALSE, error |-> JsUndefined,
        promise |-> IF ex.threw THEN "rejected" ELSE "pending",
        reason |-> ex.error, sift |-> ex.sift, head |-> ex.head]

\* this.eventData as _init builds it
_initEventData(cfg) ==
    << Prop("$api_key", cfg.apiKey),
       Prop("$user_id", cfg.userId),
       Prop("$session_id", cfg.feid),
       Prop("$browser", JsObject(
           << Prop("$user_agent", JsString(navigator.userAgent)),
              Prop("$accept_language", JsString(Join(navigator.languages))),
              Prop("$content_language", JsString(navigator.language)) >>)) >>

\* Mutant of _init: the ready flag is set only by a successful snippet load,
\* so it is still false when construction returns.
_initNotReady(cfg, sift, hd) ==
    LET load == _loadSnippet(cfg, sift, hd)
    IN [eventData |-> _initEventData(cfg),
        isInitialized |-> FALSE,
        threw |-> load.threw,
        error |-> load.error,
        loadPromise |-> load.promise,
        sift |-> load.sift,
        head |-> load.head,
        microtasks |-> IF ~load.threw /\ load.promise = "rejected"
                       THEN <<CatchJob("loadSnippet", load.reason, 0)>>
                       ELSE <<>>]

\* Mutant of _init: the snippet load is started twice.
_initLoadsTwice(cfg, sift, hd) ==
    LET first == _loadSnippet(cfg, sift, hd)
        load == _loadSnippet(cfg, first.sift, first.head)
    IN [eventData |-> _initEventData(cfg),
        isInitialized |-> TRUE,
        threw |-> load.threw,
        error |-> load.error,
        loadPromise |-> load.promise,
        sift |-> load.sift,
        head |-> load.head,
        microtasks |-> IF ~load.threw /\ load.promise = "rejected"
                       THEN <<CatchJob("loadSnippet", load.reason, 0)>>
                       ELSE <<>>]

\* _init(): template, ready flag, then the snippet load with its
\* then / catch reactions.
_init(cfg, sift, hd) ==
    LET load == _loadSnippet(cfg, sift, hd)
    IN [eventData |-> _initEventData(cfg),
        isInitialized |-> TRUE,
        threw |-> load.threw,
        error |-> load.error,
        loadPromise |-> load.promise,
        sift |-> load.sift,
        head |-> load.head,
        microtasks |-> IF ~load.threw /\ load.promise = "rejected"
                       THEN <<CatchJob("loadSnippet", load.reason, 0)>>
                       ELSE <<>>]

\* new SiftTracking(userId, feid, network)
constructor(userId, feid, network, sift, hd) ==
    LET cfg == [userId |-> IF ToBoolean(userId)
                           THEN JsString(ToString(network) \o ":" \o ToString(userId))
                           ELSE JsNull,
                feid |-> feid,
                snippetKey |-> JsString("SNIPPET_KEY"),
                snippetSrc |-> JsString("https://cdn.sift.com/s.js"),
                apiKey |-> JsString("API_KEY"),
                apiUrl |-> JsString("https://api.sift.com/v205/events")]
        init == _init(cfg, sift, hd)
    IN [config |-> cfg,
        eventData |-> init.eventData,
        isInitialized |-> init.isInitialized,
        snippetLoaded |-> FALSE,
        threw |-> init.threw,
        error |-> init.error,
        sift |-> init.sift,
        head |-> init.head,
        loadPromise |-> init.loadPromise,
        microtasks |-> init.microtasks]

\* An exception that reaches the host page: out of the constructor, out of
\* sendEvent, or out of a reaction (an unhandled rejection).
Uncaught(from, error, call) == [from |-> from, error |-> error, call |-> call]

\* Arguments of the constructor call.
UserIds == {JsNull, JsString("u1")}
Feids == {JsString(""), JsString("fe1")}
Networks == {JsString("default")}
\* window._sift when the adapter is constructed: none, or a queue another
\* script of the page has already filled.
SiftQueues == {<<>>, << <<"_hostCommand">> >>}

Init ==
    \E userId \in UserIds, feid \in Feids, network \in Networks, sift \in SiftQueues :
        LET this == constructor(userId, feid, network, sift, <<>>)
        IN /\ sift0 = sift
           /\ config = this.config
           /\ eventData = this.eventData
           /\ isInitialized = this.isInitialized
           /\ snippetLoaded = this.snippetLoaded
           /\ window_sift = this.sift
           /\ head = this.head
           /\ loadPromise = this.loadPromise
           /\ microtasks = this.microtasks
           /\ console = <<>>
           /\ requests = <<>>
           /\ calls = <<>>
           /\ thrown = IF this.threw THEN <<Uncaught("constructor", this.error, 0)>>
                       ELSE <<>>

(***************************************************************************)
(* Sending an event.                                                       *)
(***************************************************************************)
\* The fetch() call made by _apiPostData, until the transport settles it.
Request(call, url, body) ==
    [call |-> call, url |-> url, method |-> "POST", mode |-> "no-cors",
     contentType |-> "application/json", accept |-> "application/json",
     body |-> body, state |-> "pending", status |-> 0, type |-> "none"]

\* Mutant of _apiPostData: the request is left to a later task, none is
\* issued by the time the call returns.
_apiPostDataDeferred(url, data, call) ==
    LET u == IF url.t = "undefined" THEN JsString("") ELSE url
        d == IF data.t = "undefined" THEN JsObject(<<>>) ELSE data
        json == JSONstringify(d)
    IN IF json.threw
       THEN [fetched |-> FALSE, error |-> json.error, requests |-> <<>>]
       ELSE [fetched |-> TRUE, error |-> JsUndefined, requests |-> <<>>]

\* async _apiPostData(url = '', data = {}): the body runs synchronously up
\* to the await, so JSON.stringify and fetch happen inside the call; an
\* exception of JSON.stringify rejects the returned promise and no fetch
\* is made.
_apiPostData(url, data, call) ==
    LET u == IF url.t = "undefined" THEN JsString("") ELSE url
        d == IF data.t = "undefined" THEN JsObject(<<>>) ELSE data
        json == JSONstringify(d)
    IN IF json.threw
       THEN [fetched |-> FALSE, error |-> json.error, requests |-> <<>>]
       ELSE [fetched |-> TRUE, error |-> JsUndefined,
             requests |-> <<Request(call, u.s, json.members)>>]

\* Mutant of _apiSendEventChecks: the type is only compared with ''.
_apiSendEventChecksEmptyOnly(type, data) ==
    IF ~isInitialized
    THEN [threw |-> TRUE, error |-> JsError("instance is not initialized")]
    ELSE IF type = JsString("")
    THEN [threw |-> TRUE, error |-> JsError("invalid event type")]
    ELSE IF ObjectPrototypeToString(data) # "[object Object]"
    THEN [threw |-> TRUE, error |-> JsError("invalid custom data")]
    ELSE IF ~ToBoolean(config.apiKey) \/ ~ToBoolean(config.apiUrl)
    THEN [threw |-> TRUE, error |-> JsError("invalid API config")]
    ELSE [threw |-> FALSE, error |-> JsUndefined]

\* Mutant of _apiSendEventChecks: events are refused until the snippet has
\* loaded.
_apiSendEventChecksNeedsSnippet(type, data) ==
    IF ~isInitialized \/ ~snippetLoaded
    THEN [threw |-> TRUE, error |-> JsError("instance is not initialized")]
    ELSE IF ~ToBoolean(type)
    THEN [threw |-> TRUE, error |-> JsError("invalid event type")]
    ELSE IF ObjectPrototypeToString(data) # "[object Object]"
    THEN [threw |-> TRUE, error |-> JsError("invalid custom data")]
    ELSE IF ~ToBoolean(config.apiKey) \/ ~ToBoolean(config.apiUrl)
    THEN [threw |-> TRUE, error |-> JsError("invalid API config")]
    ELSE [threw |-> FALSE, error |-> JsUndefined]

\* Mutant of _apiSendEventChecks: the data is checked before the type.
_apiSendEventChecksDataFirst(type, data) ==
    IF ~isInitialized
    THEN [threw |-> TRUE, error |-> JsError("instance is not initialized")]
    ELSE IF ObjectPrototypeToString(data) # "[object Object]"
    THEN [threw |-> TRUE, error |-> JsError("invalid custom data")]
    ELSE IF ~ToBoolean(type)
    THEN [threw |-> TRUE, error |-> JsError("invalid event type")]
    ELSE IF ~ToBoolean(config.apiKey) \/ ~ToBoolean(config.apiUrl)
    THEN [threw |-> TRUE, error |-> JsError("invalid API config")]
    ELSE [threw |-> FALSE, error |-> JsUndefined]

\* The four checks of _apiSendEvent, in the order of the code: the error
\* thrown by the first one that fails, or none.
_apiSendEventChecks(type, data) ==
    IF ~isInitialized
    THEN [threw |-> TRUE, error |-> JsError("instance is not initialized")]
    ELSE IF ~ToBoolean(type)
    THEN [threw |-> TRUE, error |-> JsError("invalid event type")]
    ELSE IF ObjectPrototypeToString(data) # "[object Object]"
    THEN [threw |-> TRUE, error |-> JsError("invalid custom data")]
    ELSE IF ~ToBoolean(config.apiKey) \/ ~ToBoolean(config.apiUrl)
    THEN [threw |-> TRUE, error |-> JsError("invalid API config")]
    ELSE [threw |-> FALSE, error |-> JsUndefined]

\* Mutant of _apiSendEventCompose: Object.assign(this.eventData, data), the
\* caller's fields are written into the template itself.
_apiSendEventComposeAssign(type, template, data) ==
    [event |-> JsObject(Spread(Spread(<<Prop("$type", type)>>, template), data.props)),
     template |-> Spread(template, data.props)]

\* const eventData = {"$type": type, ...this.eventData, ...data}: the new
\* object, and this.eventData as the statement leaves it.
_apiSendEventCompose(type, template, data) ==
    [event |-> JsObject(Spread(Spread(<<Prop("$type", type)>>, template), data.props)),
     template |-> template]

\* _apiSendEvent(type, data): the checks, the composition, the POST.
_apiSendEvent(type, data, call) ==
    LET check == _apiSendEventChecks(type, data)
    IN IF check.threw
       THEN [threw |-> TRUE, error |-> check.error, eventData |-> eventData,
             requests |-> <<>>, microtasks |-> <<>>]
       ELSE LET composed == _apiSendEventCompose(type, eventData, data)
                post == _apiPostData(config.apiUrl, composed.event, call)
            IN [threw |-> FALSE, error |-> JsUndefined,
                eventData |-> composed.template,
                requests |-> post.requests,
                microtasks |-> IF post.fetched THEN <<>>
                               ELSE <<CatchJob("sendEvent", post.error, call)>>]

\* Arguments of sendEvent.
Types == {JsString(""), JsNull, JsString("$login"), JsString("$create_account")}
DataArgs ==
    { JsUndefined, JsArray, JsString("text"),
      JsObject(<<Prop("custom", JsString("v"))>>),
      JsObject(<<Prop("$session_id", JsString("fe2"))>>),
      JsObject(<<Prop("$type", JsString(""))>>),
      JsObject(<<Prop("custom", JsUndefined)>>),
      JsObject(<<Prop("custom", JsBigInt)>>) }

\* sendEvent(type, data = {}): try { _apiSendEvent } catch { _handleError }
\* The call record keeps the argument as passed (data) and the object the
\* caller still holds (held), the same value when the call returns.
sendEvent(type, dataArg) ==
    /\ Len(calls) < MaxSends
    /\ LET call == Len(calls) + 1
           data == IF dataArg.t = "undefined" THEN JsObject(<<>>) ELSE dataArg
           api == _apiSendEvent(type, data, call)
           caught == _handleError(api.error, JsString("sendEvent"), call)
           escaped == api.threw /\ caught.threw
       IN /\ eventData' = api.eventData
          /\ requests' = requests \o api.requests
          /\ microtasks' = microtasks \o api.microtasks
          /\ console' = IF api.threw THEN console \o caught.lines ELSE console
          /\ thrown' = IF escaped
                       THEN Append(thrown, Uncaught("sendEvent", caught.error, call))
                       ELSE thrown
          /\ calls' = Append(calls, [type |-> type, data |-> dataArg, held |-> dataArg,
                                     returned |-> IF escaped THEN "threw" ELSE "normal"])
    /\ UNCHANGED <<sift0, config, isInitialized, snippetLoaded,
                   window_sift, head, loadPromise>>

(***************************************************************************)
(* Reactions and browser events.  A browser task (a script event, the      *)
(* settling of a fetch) starts only when the microtask queue is empty, and *)
(* the reactions it triggers run before any other task.                    *)
(***************************************************************************)
\* The next microtask: the catch reaction of a promise rejected during the
\* synchronous part of construction or of sendEvent.
RunMicrotask ==
    /\ microtasks # <<>>
    /\ LET job == Head(microtasks)
           caught == _handleError(job.error, JsString(job.op), job.call)
       IN /\ console' = console \o caught.lines
          /\ thrown' = IF caught.threw
                       THEN Append(thrown, Uncaught("reaction", caught.error, job.call))
                       ELSE thrown
    /\ microtasks' = Tail(microtasks)
    /\ UNCHANGED <<sift0, config, eventData, isInitialized, snippetLoaded,
                   window_sift, head, loadPromise, requests, calls>>

\* .then(message => { this.snippetLoaded = true; console.log(message) })
_initThen(message) ==
    [snippetLoaded |-> TRUE,
     lines |-> <<LogLine("log", ToString(message), "loadSnippet", 0)>>]

\* Mutant of SnippetOnload: the handler sets the flag itself, whatever the
\* state of the promise.
SnippetOnloadSetsFlag ==
    /\ microtasks = <<>>
    /\ head # <<>>
    /\ "load" \notin head[1].events
    /\ head' = [head EXCEPT ![1].events = @ \cup {"load"}]
    /\ snippetLoaded' = TRUE
    /\ console' = Append(console,
                         LogLine("log", "SiftTracking::loadSnippet:Success", "loadSnippet", 0))
    /\ loadPromise' = IF loadPromise = "pending" THEN "fulfilled" ELSE loadPromise
    /\ UNCHANGED <<sift0, config, eventData, isInitialized, window_sift,
                   microtasks, requests, calls, thrown>>

\* snippetScript.onload: resolve('SiftTracking::loadSnippet:Success').
\* Resolving a promise that is already settled does nothing.
SnippetOnload ==
    /\ microtasks = <<>>
    /\ head # <<>>
    /\ "load" \notin head[1].events
    /\ head' = [head EXCEPT ![1].events = @ \cup {"load"}]
    /\ IF loadPromise = "pending"
       THEN LET then == _initThen(JsString("SiftTracking::loadSnippet:Success"))
            IN /\ loadPromise' = "fulfilled"
               /\ snippetLoaded' = then.snippetLoaded
               /\ console' = console \o then.lines
       ELSE UNCHANGED <<loadPromise, snippetLoaded, console>>
    /\ UNCHANGED <<sift0, config, eventData, isInitialized, window_sift,
                   microtasks, requests, calls, thrown>>

\* Mutant of SnippetOnerror: a failed load marks the adapter as not ready.
SnippetOnerrorResetsReady ==
    /\ microtasks = <<>>
    /\ head # <<>>
    /\ "error" \notin head[1].events
    /\ head' = [head EXCEPT ![1].events = @ \cup {"error"}]
    /\ IF loadPromise = "pending"
       THEN /\ loadPromise' = "rejected"
            /\ isInitialized' = FALSE
            /\ console' = console \o _handleError(JsString("script fetching failed"),
                                                  JsString("loadSnippet"), 0).lines
       ELSE UNCHANGED <<loadPromise, isInitialized, console>>
    /\ UNCHANGED <<sift0, config, eventData, snippetLoaded, window_sift,
                   microtasks, requests, calls, thrown>>

\* Mutant of SnippetOnerror: the handler logs the failure itself, whatever
\* the state of the promise.
SnippetOnerrorAlwaysLogs ==
    /\ microtasks = <<>>
    /\ head # <<>>
    /\ "error" \notin head[1].events
    /\ head' = [head EXCEPT ![1].events = @ \cup {"error"}]
    /\ console' = console \o _handleError(JsString("script fetching failed"),
                                          JsString("loadSnippet"), 0).lines
    /\ loadPromise' = IF loadPromise = "pending" THEN "rejected" ELSE loadPromise
    /\ UNCHANGED <<sift0, config, eventData, isInitialized, snippetLoaded, window_sift,
                   microtasks, requests, calls, thrown>>

\* snippetScript.onerror: reject('script fetching failed'), then the catch
\* reaction of _init.  Rejecting a settled promise does nothing.
SnippetOnerror ==
    /\ microtasks = <<>>
    /\ head # <<>>
    /\ "error" \notin head[1].events
    /\ head' = [head EXCEPT ![1].events = @ \cup {"error"}]
    /\ IF loadPromise = "pending"
       THEN LET caught == _handleError(JsString("script fetching failed"),
                                       JsString("loadSnippet"), 0)
            IN /\ loadPromise' = "rejected"
               /\ console' = console \o caught.lines
               /\ thrown' = IF caught.threw
                            THEN Append(thrown, Uncaught("reaction", caught.error, 0))
                            ELSE thrown
       ELSE UNCHANGED <<loadPromise, console, thrown>>
    /\ UNCHANGED <<sift0, config, eventData, isInitialized, snippetLoaded, window_sift,
                   microtasks, requests, calls>>

\* What fetch can resolve with in no-cors mode: an opaque response (status
\* 0) for a cross-origin URL, a basic response for a same-origin one.
\* response.ok is status in 200..299; a Response has no error_message.
Response(type, status) ==
    [type |-> type, status |-> status, ok |-> status \in 200..299,
     error_message |-> JsUndefined]
Responses == {Response("opaque", 0), Response("basic", 200), Response("basic", 500)}

\* .then(response => ...) of _apiSendEvent, followed by its .catch
_apiSendEventThen(type, response, call) ==
    IF response.ok
    THEN [threw |-> FALSE, error |-> JsUndefined,
          lines |-> <<LogLine("log",
                              "SiftTracking::sendEvent:Success: " \o ToString(type),
                              "sendEvent", call)>>]
    ELSE _handleError(
            JsError(ToString(type) \o " " \o
                    (IF ToBoolean(response.error_message)
                     THEN ToString(response.error_message)
                     ELSE "invalid response")),
            JsString("sendEvent"), call)

\* The transport resolves request i.
FetchResolve(i, response) ==
    /\ microtasks = <<>>
    /\ requests[i].state = "pending"
    /\ requests' = [requests EXCEPT ![i].state = "fulfilled",
                                    ![i].status = response.status,
                                    ![i].type = response.type]
    /\ LET done == _apiSendEventThen(calls[requests[i].call].type, response,
                                     requests[i].call)
       IN /\ console' = console \o done.lines
          /\ thrown' = IF done.threw
                       THEN Append(thrown, Uncaught("reaction", done.error,
                                                    requests[i].call))
                       ELSE thrown
    /\ UNCHANGED <<sift0, config, eventData, isInitialized, snippetLoaded,
                   window_sift, head, loadPromise, microtasks, calls>>

\* Mutant of FetchReject: a failed delivery is sent again.
FetchRejectRetries(i) ==
    /\ microtasks = <<>>
    /\ requests[i].state = "pending"
    /\ requests' = Append([requests EXCEPT ![i].state = "rejected"],
                          Request(requests[i].call, requests[i].url, requests[i].body))
    /\ console' = console \o _handleError(JsError("Failed to fetch"),
                                          JsString("sendEvent"), requests[i].call).lines
    /\ UNCHANGED <<sift0, config, eventData, isInitialized, snippetLoaded,
                   window_sift, head, loadPromise, microtasks, calls, thrown>>

\* The transport rejects request i (network failure): the .catch reaction.
FetchReject(i) ==
    /\ microtasks = <<>>
    /\ requests[i].state = "pending"
    /\ requests' = [requests EXCEPT ![i].state = "rejected"]
    /\ LET caught == _handleError(JsError("Failed to fetch"),
                                  JsString("sendEvent"), requests[i].call)
       IN /\ console' = console \o caught.lines
          /\ thrown' = IF caught.threw
                       THEN Append(thrown, Uncaught("reaction", caught.error,
                                                    requests[i].call))
                       ELSE thrown
    /\ UNCHANGED <<sift0, config, eventData, isInitialized, snippetLoaded,
                   window_sift, head, loadPromise, microtasks, calls>>

Next ==
    \/ \E type \in Types, dataArg \in DataArgs : sendEvent(type, dataArg)
    \/ RunMicrotask
    \/ SnippetOnload
    \/ SnippetOnerror
    \/ \E i \in 1..Len(requests), response \in Responses : FetchResolve(i, response)
    \/ \E i \in 1..Len(requests) : FetchReject(i)

Spec == Init /\ [][Next]_vars

(***************************************************************************)
(* The adapter together with a caller that keeps the data object it passed *)
(* to sendEvent and writes to it after the call has returned.              *)
(***************************************************************************)
\* The write the caller makes: data.custom = 'late'.
LateWrite == <<Prop("custom", JsString("late"))>>

\* The caller changes the object passed to call c.  data is passed by
\* reference, so the object the adapter was given changes; the adapter
\* holds no reference to it after the call (the spread copied its fields,
\* JSON.stringify produced a string).
CallerMutatesData(c) ==
    /\ calls[c].held.t = "object"
    /\ Spread(calls[c].held.props, LateWrite) # calls[c].held.props
    /\ calls' = [calls EXCEPT ![c].held = JsObject(Spread(@.props, LateWrite))]
    /\ UNCHANGED <<sift0, config, eventData, isInitialized, snippetLoaded,
                   window_sift, head, loadPromise, microtasks, console,
                   requests, thrown>>

NextCaller ==
    \/ Next
    \/ \E c \in 1..Len(calls) : CallerMutatesData(c)

SpecCaller == Init /\ [][NextCaller]_vars

(***************************************************************************)
(* The Error Normalizer on its own: _handleError applied to any failure    *)
(* value and any operation tag.  calls records the applications.           *)
(***************************************************************************)
\* Number of _handleError applications.
MaxHandled == 2

\* Failure values: Errors with and without a message, strings, an object
\* with no message, null, undefined.
ErrorValues ==
    { JsError("boom"), JsError(""), JsString("script fetching failed"), JsString(""),
      JsObject(<<>>), JsNull, JsUndefined }
\* Operation tags: the two the adapter passes, and none.
Methods == {JsString("sendEvent"), JsString("loadSnippet"), JsUndefined}

HandleError(error, method) ==
    /\ Len(calls) < MaxHandled
    /\ LET call == Len(calls) + 1
           handled == _handleError(error, method, call)
       IN /\ console' = console \o handled.lines
          /\ thrown' = IF handled.threw
                       THEN Append(thrown, Uncaught("_handleError", handled.error, call))
                       ELSE thrown
          /\ calls' = Append(calls, [error |-> error, method |-> method,
                                     returned |-> IF handled.threw THEN "threw"
                                                  ELSE "normal"])
    /\ UNCHANGED <<sift0, config, eventData, isInitialized, snippetLoaded,
                   window_sift, head, loadPromise, microtasks, requests>>

HandleErrorNext == \E error \in ErrorValues, method \in Methods : HandleError(error, method)

HandleErrorSpec == Init /\ [][HandleErrorNext]_vars

(***************************************************************************)
(* Properties.                                                             *)
(***************************************************************************)
\* The line the Error Normalizer writes for operation op and message msg.
ErrorText(op, msg) == "SiftTracking::" \o op \o ":Error: " \o msg

\* What the console shows for sendEvent call c (c = 0: the snippet load).
LinesOf(c) == SelectSeq(console, LAMBDA l : l.call = c)
ErrorLinesOf(c) == SelectSeq(console, LAMBDA l : l.call = c /\ l.level = "error")
RequestsOf(c) == {i \in 1..Len(requests) : requests[i].call = c}
JobsOf(c) == {i \in 1..Len(microtasks) : microtasks[i].call = c}

\* The entries of window._sift that are commands of the adapter.
OwnCommands ==
    SelectSeq(window_sift,
              LAMBDA cmd : cmd[1] \in {"_setAccount", "_setUserId",
                                       "_setSessionId", "_trackPageview"})

\* Call c was made with an empty type ('' or null).
EmptyType(c) == calls[c].type \in {JsString(""), JsNull}
\* The data sendEvent works on: {} when the argument is left out.
DataOf(c) == IF calls[c].data = JsUndefined THEN JsObject(<<>>) ELSE calls[c].data
\* Call c passes a non-empty type and a plain mapping (or no data).
Accepted(c) == ~EmptyType(c) /\ DataOf(c).t = "object"

\* Call c produced exactly the one error line msg tagged sendEvent, no
\* other line, no POST and no pending reaction.
RejectedWith(c, msg) ==
    /\ RequestsOf(c) = {}
    /\ JobsOf(c) = {}
    /\ Len(LinesOf(c)) = 1
    /\ LinesOf(c)[1].level = "error"
    /\ LinesOf(c)[1].text = ErrorText("sendEvent", msg)

\* C1: isInitialized is true from the moment construction returns and in
\* every later state, whatever the arguments and whatever sendEvent calls,
\* snippet events and deliveries follow; no call is ever answered with the
\* 'instance is not initialized' error.
C1_AlwaysInitialized ==
    /\ isInitialized = TRUE
    /\ \A i \in 1..Len(console) :
          console[i].text # ErrorText("sendEvent", "instance is not initialized")

\* C1 witness: an adapter built with an empty sessionId whose snippet load
\* has failed, after sendEvent calls and a failed delivery.
C1_Witness ==
    /\ ~ToBoolean(config.feid)
    /\ microtasks = <<>>
    /\ Len(calls) = MaxSends
    /\ \E i \in 1..Len(requests) : requests[i].state = "rejected"

\* C2: no sendEvent call throws to its caller and nothing escapes from a
\* reaction either; a call that fails validation, and a delivery that
\* fails, show up as an error line of the Error Normalizer tagged sendEvent.
C2_SendEventNeverThrows ==
    /\ thrown = <<>>
    /\ \A c \in 1..Len(calls) :
          /\ calls[c].returned = "normal"
          /\ ~Accepted(c) =>
                /\ Len(ErrorLinesOf(c)) = 1
                /\ ErrorLinesOf(c)[1].op = "sendEvent"
          /\ \A i \in RequestsOf(c) :
                (requests[i].state = "rejected"
                 \/ (requests[i].state = "fulfilled" /\ requests[i].status \notin 200..299))
                => /\ Len(ErrorLinesOf(c)) = 1
                   /\ ErrorLinesOf(c)[1].op = "sendEvent"

\* C2 witness: one call failed validation and the delivery of another failed.
C2_Witness ==
    \E c, d \in 1..Len(calls) :
        /\ ~Accepted(c)
        /\ \E i \in RequestsOf(d) : requests[i].state = "rejected"

\* The value key k has in {$type: type} overlaid with the template overlaid
\* with the data of call c: the data's if the data holds k, else the
\* template's, else the type.
OverlayKeys(c) == {"$type"} \cup Keys(eventData) \cup Keys(DataOf(c).props)
OverlayValue(c, k) ==
    IF HasKey(DataOf(c).props, k) THEN Get(DataOf(c).props, k)
    ELSE IF HasKey(eventData, k) THEN Get(eventData, k)
    ELSE calls[c].type

\* Request i is a POST to the configured endpoint.
PostToEndpoint(i) ==
    /\ requests[i].method = "POST"
    /\ requests[i].url = config.apiUrl.s

\* C3 as stated: every call with a non-empty type and a plain mapping
\* triggers exactly one POST to config.apiUrl whose body holds every key of
\* the overlay with the overlay's value.
C3_Original ==
    \A c \in 1..Len(calls) :
        Accepted(c) =>
            /\ Cardinality(RequestsOf(c)) = 1
            /\ \A i \in RequestsOf(c) :
                  /\ PostToEndpoint(i)
                  /\ Keys(requests[i].body) = OverlayKeys(c)
                  /\ \A k \in OverlayKeys(c) :
                        Get(requests[i].body, k) = JSONText(OverlayValue(c, k))

\* C3 amended: a call with a non-empty type and a plain mapping triggers
\* exactly one POST to config.apiUrl when JSON.stringify accepts the
\* overlay, and the body is then the serialized overlay: the keys whose
\* overlay value is not undefined, each with the JSON text of that value
\* (the data's on a collision).  When JSON.stringify throws (a BigInt
\* value) no POST is made and the call ends in one error line.
C3_PostsSerializedOverlay ==
    \A c \in 1..Len(calls) :
        Accepted(c) =>
            IF \E k \in OverlayKeys(c) : OverlayValue(c, k).t = "bigint"
            THEN /\ RequestsOf(c) = {}
                 /\ IF JobsOf(c) # {} THEN LinesOf(c) = <<>>
                    ELSE /\ Len(LinesOf(c)) = 1
                         /\ LinesOf(c)[1].level = "error"
                         /\ LinesOf(c)[1].op = "sendEvent"
            ELSE /\ Cardinality(RequestsOf(c)) = 1
                 /\ \A i \in RequestsOf(c) :
                       /\ PostToEndpoint(i)
                       /\ Keys(requests[i].body) =
                             {k \in OverlayKeys(c) : OverlayValue(c, k).t # "undefined"}
                       /\ \A k \in Keys(requests[i].body) :
                             Get(requests[i].body, k) = JSONText(OverlayValue(c, k))

\* C3 witness: a POST was made for a call whose data collides with the
\* template on $session_id.
C3_Witness ==
    \E c \in 1..Len(calls) :
        /\ Accepted(c)
        /\ HasKey(DataOf(c).props, "$session_id")
        /\ \E i \in RequestsOf(c) :
              Get(requests[i].body, "$session_id") = JSONText(JsString("fe2"))

\* C4: a call whose type is '' or null never issues a POST, then or later,
\* and produces exactly one error line, 'invalid event type', tagged
\* sendEvent.
C4_EmptyTypeRejected ==
    \A c \in 1..Len(calls) :
        EmptyType(c) => RejectedWith(c, "invalid event type")

\* C4 witness: a call with type '' and a call with type null were made.
C4_Witness ==
    \E c, d \in 1..Len(calls) :
        /\ calls[c].type = JsString("")
        /\ calls[d].type = JsNull

\* C5 as stated: a call with a non-empty type whose data argument is not a
\* mapping issues no POST and produces exactly one 'invalid custom data'
\* line tagged sendEvent.
C5_Original ==
    \A c \in 1..Len(calls) :
        (~EmptyType(c) /\ calls[c].data.t # "object")
            => RejectedWith(c, "invalid custom data")

\* C5 amended: the same for every non-mapping data argument other than
\* undefined (an array, a string); an undefined data argument selects the
\* default {} and the call is accepted.
C5_NonMappingRejected ==
    \A c \in 1..Len(calls) :
        /\ (~EmptyType(c) /\ calls[c].data.t \notin {"object", "undefined"})
              => RejectedWith(c, "invalid custom data")
        /\ (~EmptyType(c) /\ calls[c].data.t = "undefined")
              => Cardinality(RequestsOf(c)) = 1

\* C5 witness: an array and a string were both passed as data with a
\* non-empty type.
C5_Witness ==
    \E c, d \in 1..Len(calls) :
        /\ ~EmptyType(c) /\ calls[c].data = JsArray
        /\ ~EmptyType(d) /\ calls[d].data.t = "string"

\* C6: once the injected script has reported an error that rejected the
\* load, isInitialized is still true, snippetLoaded is false in that and
\* every later state, nothing was thrown out of construction or of the
\* handler, the console holds exactly one loadSnippet error line, and there
\* is still one script element and one set of four commands (no retry).
C6_SnippetErrorHandled ==
    (head # <<>> /\ loadPromise = "rejected") =>
        /\ isInitialized
        /\ ~snippetLoaded
        /\ thrown = <<>>
        /\ Len(LinesOf(0)) = 1
        /\ LinesOf(0)[1].level = "error"
        /\ LinesOf(0)[1].text = ErrorText("loadSnippet", "script fetching failed")
        /\ Len(head) = 1
        /\ Len(OwnCommands) = 4

\* C6 witness: the script reported an error, then a load event, and events
\* were sent in between.
C6_Witness ==
    /\ head # <<>>
    /\ loadPromise = "rejected"
    /\ head[1].events = {"load", "error"}
    /\ Len(calls) = MaxSends

\* The template keys the data of call c does not carry itself.
OwnTemplateKeys(c) == Keys(eventData) \ Keys(DataOf(c).props)

\* C7: the template is the one _init built, in every state, and every POST
\* body carries the template's value for each template key its own data
\* does not override, whatever the earlier calls carried.
C7_TemplateNeverMutated ==
    /\ eventData = _initEventData(config)
    /\ \A i \in 1..Len(requests) :
          \A k \in OwnTemplateKeys(requests[i].call) :
              /\ HasKey(requests[i].body, k)
              /\ Get(requests[i].body, k) = JSONText(Get(_initEventData(config), k))

\* C7 witness: two POSTs with different types, the first for a call whose
\* data carried $session_id, the second for one that did not.
C7_Witness ==
    /\ Len(requests) = 2
    /\ HasKey(DataOf(requests[1].call).props, "$session_id")
    /\ ~HasKey(DataOf(requests[2].call).props, "$session_id")
    /\ calls[requests[1].call].type # calls[requests[2].call].type
    /\ Get(requests[1].body, "$session_id") # Get(requests[2].body, "$session_id")

\* C8 as stated: the $type member of every POST body is the type argument
\* of the call that made it.
C8_TypeTagIsArgument ==
    \A i \in 1..Len(requests) :
        /\ HasKey(requests[i].body, "$type")
        /\ Get(requests[i].body, "$type") = JSONText(calls[requests[i].call].type)

\* C9: the checks are reported in order: a call with an empty type is
\* answered 'invalid event type' whatever its data, a call with a non-empty
\* type and a non-mapping data 'invalid custom data'; each such call leaves
\* exactly one error line tagged sendEvent and no POST.  The 'not
\* initialized' and 'invalid API config' lines never appear.
C9_ValidationOrder ==
    /\ \A c \in 1..Len(calls) :
          LET rejects == ObjectPrototypeToString(DataOf(c)) # "[object Object]"
          IN /\ ~ToBoolean(calls[c].type)
                    => RejectedWith(c, "invalid event type")
             /\ (ToBoolean(calls[c].type) /\ rejects)
                    => RejectedWith(c, "invalid custom data")
    /\ \A i \in 1..Len(console) :
          console[i].text \notin {ErrorText("sendEvent", "instance is not initialized"),
                                  ErrorText("sendEvent", "invalid API config")}

\* C9 witness: a call that violates the type check and the data check at
\* once has been answered.
C9_Witness ==
    \E c \in 1..Len(calls) :
        /\ calls[c].type = JsNull
        /\ calls[c].data = JsArray
        /\ Len(LinesOf(c)) = 1

\* C10: with an empty sessionId the loader fails before any side effect:
\* the command queue and document.head are untouched, snippetLoaded is
\* false, nothing is thrown out of construction, and the failure is the
\* pending catch reaction first and exactly one 'invalid config' error
\* line tagged loadSnippet once that reaction has run.
C10_EmptySessionNoSideEffect ==
    ~ToBoolean(config.feid) =>
        /\ window_sift \in SiftQueues
        /\ OwnCommands = <<>>
        /\ head = <<>>
        /\ ~snippetLoaded
        /\ loadPromise = "rejected"
        /\ thrown = <<>>
        /\ IF JobsOf(0) # {}
           THEN /\ Cardinality(JobsOf(0)) = 1
                /\ LinesOf(0) = <<>>
           ELSE /\ Len(LinesOf(0)) = 1
                /\ LinesOf(0)[1].level = "error"
                /\ LinesOf(0)[1].text = ErrorText("loadSnippet", "invalid config")

\* C10 witness: the adapter was built with an empty sessionId, the catch
\* reaction has run and an event was sent.
C10_Witness ==
    /\ ~ToBoolean(config.feid)
    /\ JobsOf(0) = {}
    /\ Len(LinesOf(0)) = 1
    /\ requests # <<>>

\* w extends v: v is a prefix of w.
Extends(w, v) == Len(w) >= Len(v) /\ SubSeq(w, 1, Len(v)) = v

\* C11: when the loader's preconditions hold, what the page's queue held
\* before construction is still there, followed by the adapter's four
\* commands in the order _setAccount, _setUserId, _setSessionId,
\* _trackPageview; the script element was appended with all four already
\* queued; and no step ever removes, replaces or reorders an entry.
C11_FourCommandsBeforeScript ==
    /\ [](ToBoolean(config.feid) =>
            /\ window_sift = sift0 \o << <<"_setAccount", JsString("SNIPPET_KEY")>>,
                                        <<"_setUserId", config.userId>>,
                                        <<"_setSessionId", config.feid>>,
                                        <<"_trackPageview">> >>
            /\ Len(head) = 1
            /\ head[1].sift = window_sift)
    /\ [][Extends(window_sift', window_sift)]_vars

\* C11 witness: the adapter was built with a user id and a sessionId on a
\* page whose queue already held a command, and events were sent since.
C11_Witness ==
    /\ ToBoolean(config.feid)
    /\ sift0 # <<>>
    /\ config.userId = JsString("default:u1")
    /\ Len(window_sift) = 5
    /\ Len(calls) = MaxSends

\* C12 as stated: in every state one script element has been injected and
\* four commands pushed by the instance.
C12_Original ==
    /\ Len(head) = 1
    /\ Len(OwnCommands) = 4

\* C12 amended: the script is side-loaded at most once per instance: one
\* script element and four commands when the sessionId is non-empty, none
\* when it is empty, in every state; no step adds a script element or a
\* command, and a sendEvent call leaves head, the queue and the load
\* promise as they were.
C12_SideLoadedAtMostOnce ==
    /\ [](IF ToBoolean(config.feid)
          THEN Len(head) = 1 /\ Len(OwnCommands) = 4
          ELSE head = <<>> /\ OwnCommands = <<>>)
    /\ [][/\ Len(head') = Len(head)
          /\ window_sift' = window_sift
          /\ calls' # calls =>
                /\ head' = head
                /\ loadPromise' = loadPromise
                /\ snippetLoaded' = snippetLoaded]_vars

\* C12 witness: after all sendEvent calls, with a failed load and settled
\* deliveries, there is still one script element and four commands.
C12_Witness ==
    /\ Len(head) = 1
    /\ Len(OwnCommands) = 4
    /\ loadPromise = "rejected"
    /\ Len(calls) = MaxSends
    /\ Len(requests) = MaxSends
    /\ \A i \in 1..Len(requests) : requests[i].state # "pending"

\* C13: the load settles at most once and its outcomes exclude each other.
\* snippetLoaded is true only after the script's load event fulfilled the
\* promise, with exactly one success notice and no loadSnippet error line;
\* a loadSnippet error line exists only after the error event or the
\* invalid configuration rejected the promise, and then snippetLoaded is
\* false; this holds when both events are delivered.  A settled promise
\* stays as it is and snippetLoaded never returns to false.
C13_LoadSettlesOnce ==
    /\ [](/\ Len(LinesOf(0)) <= 1
          /\ snippetLoaded =>
                /\ loadPromise = "fulfilled"
                /\ head # <<>> /\ "load" \in head[1].events
                /\ Len(LinesOf(0)) = 1
                /\ LinesOf(0)[1].level = "log"
                /\ LinesOf(0)[1].text = "SiftTracking::loadSnippet:Success"
          /\ ErrorLinesOf(0) # <<>> =>
                /\ loadPromise = "rejected"
                /\ ~snippetLoaded
                /\ \/ head # <<>> /\ "error" \in head[1].events
                   \/ ~ToBoolean(config.feid)
          /\ loadPromise = "fulfilled" => snippetLoaded)
    /\ [][/\ snippetLoaded => snippetLoaded'
          /\ loadPromise # "pending" => loadPromise' = loadPromise]_vars

\* C13 witness: the load succeeded and an error event was delivered for the
\* same element afterwards.
C13_Witness ==
    /\ snippetLoaded
    /\ head[1].events = {"load", "error"}

\* A call record of a valid event: a non-empty type, a plain mapping (or no
\* data) and no value JSON.stringify refuses.
ValidEvent(call) ==
    /\ call.type \notin {JsString(""), JsNull}
    /\ \/ call.data = JsUndefined
       \/ /\ call.data.t = "object"
          /\ \A i \in 1..Len(call.data.props) : call.data.props[i].v.t # "bigint"

\* C14: sends are not gated by the snippet or by earlier deliveries: a
\* sendEvent step for a valid event issues its POST in that step, whether
\* the load is pending, fulfilled or rejected (by the error event or by the
\* invalid configuration) and whatever requests are still pending; the
\* step leaves the earlier requests and the snippet state as they were.
C14_SendsNotGated ==
    [][Len(calls') = Len(calls) + 1 =>
          /\ ValidEvent(calls'[Len(calls')]) =>
                /\ Len(requests') = Len(requests) + 1
                /\ requests'[Len(requests')].call = Len(calls')
                /\ requests'[Len(requests')].state = "pending"
          /\ SubSeq(requests', 1, Len(requests)) = requests
          /\ loadPromise' = loadPromise
          /\ snippetLoaded' = snippetLoaded]_vars

\* C14 witness: the snippet load and the first POST are still pending while
\* a later call has issued its own POST and the transport has resolved it.
C14_Witness ==
    /\ loadPromise = "pending"
    /\ Len(requests) = 2
    /\ requests[1].state = "pending"
    /\ requests[2].state = "fulfilled"
    /\ Len(LinesOf(requests[2].call)) = 1

\* Every request has its outcome: no line while it is pending, and once the
\* transport has settled it exactly one line for its call, either the
\* success notice with the call's type (a response with ok) or an error
\* line tagged sendEvent.
OneOutcomePerRequest ==
    \A i \in 1..Len(requests) :
        LET c == requests[i].call
        IN /\ RequestsOf(c) = {i}
           /\ requests[i].state = "pending" => LinesOf(c) = <<>>
           /\ requests[i].state # "pending" =>
                 /\ Len(LinesOf(c)) = 1
                 /\ \/ /\ LinesOf(c)[1].level = "log"
                       /\ LinesOf(c)[1].text =
                             "SiftTracking::sendEvent:Success: " \o calls[c].type.s
                       /\ requests[i].state = "fulfilled"
                    \/ /\ LinesOf(c)[1].level = "error"
                       /\ LinesOf(c)[1].op = "sendEvent"

\* C15 as stated: the number of POSTs issued equals the number of calls
\* that passed validation, and each has one outcome.
C15_Original ==
    /\ Len(requests) = Cardinality({c \in 1..Len(calls) : Accepted(c)})
    /\ OneOutcomePerRequest

\* C15 amended: the number of POSTs issued equals the number of calls that
\* passed validation and whose event JSON.stringify accepted; a failed
\* delivery causes no other POST; a settled request has exactly one outcome
\* line, a success notice or an error, and a call that passed validation
\* with an event JSON.stringify refused has no POST and one error line once
\* its reaction has run.
C15_OnePostPerSerializedEvent ==
    /\ Len(requests) = Cardinality({c \in 1..Len(calls) : ValidEvent(calls[c])})
    /\ OneOutcomePerRequest
    /\ \A c \in 1..Len(calls) :
          (Accepted(c) /\ ~ValidEvent(calls[c])) =>
              /\ RequestsOf(c) = {}
              /\ IF JobsOf(c) # {} THEN LinesOf(c) = <<>>
                 ELSE /\ Len(LinesOf(c)) = 1
                      /\ LinesOf(c)[1].level = "error"
                      /\ LinesOf(c)[1].op = "sendEvent"

\* C15 witness: two accepted calls, one delivery rejected by the transport
\* and one answered with ok, each with its single line and no further POST.
C15_Witness ==
    /\ Len(requests) = 2
    /\ requests[1].state = "rejected"
    /\ requests[2].state = "fulfilled" /\ requests[2].status = 200
    /\ Len(console) >= 2

\* C16 as stated: when the transport resolves a no-cors POST with an opaque
\* response, the console gets the success notice with the event type and no
\* error line for that event.
C16_OpaqueSuccessLogged ==
    \A i \in 1..Len(requests) :
        (requests[i].mode = "no-cors" /\ requests[i].state = "fulfilled"
         /\ requests[i].type = "opaque") =>
            /\ Len(LinesOf(requests[i].call)) = 1
            /\ LinesOf(requests[i].call)[1].level = "log"
            /\ LinesOf(requests[i].call)[1].text =
                  "SiftTracking::sendEvent:Success: " \o calls[requests[i].call].type.s

\* The message the normalizer is to log for a failure value: the error's
\* message if it has one, else the raw string, else 'UNKNOWN'.
NormalizedMessage(error) ==
    IF error.t = "error" /\ error.s # "" THEN error.s
    ELSE IF error.t = "string" /\ error.s # "" THEN error.s
    ELSE "UNKNOWN"

\* C17 as stated (under HandleErrorSpec): for every failure value,
\* including null and undefined, _handleError throws nothing and writes
\* exactly one line: component, operation tag ('General' when none is
\* given) and the message.
C17_NormalizerNeverThrows ==
    /\ thrown = <<>>
    /\ \A c \in 1..Len(calls) :
          /\ calls[c].returned = "normal"
          /\ Len(LinesOf(c)) = 1
          /\ LinesOf(c)[1].level = "error"
          /\ LinesOf(c)[1].text =
                ErrorText(IF calls[c].method = JsUndefined THEN "General"
                          ELSE calls[c].method.s,
                          NormalizedMessage(calls[c].error))

\* The adapter's own fields.
AdapterState == <<config, eventData, isInitialized, snippetLoaded>>

\* C18: after construction no step changes config or isInitialized; a
\* sendEvent call and a delivery completion (success or failure) leave
\* config, isInitialized and snippetLoaded unchanged; snippetLoaded changes
\* only in the step that fulfils the load promise, which changes no other
\* field of the adapter; the steps that reject the load or run its catch
\* reaction change no field of the adapter.
C18_SingleWriters ==
    [][/\ config' = config
       /\ isInitialized' = isInitialized
       /\ (calls' # calls \/ requests' # requests) => snippetLoaded' = snippetLoaded
       /\ snippetLoaded' # snippetLoaded =>
             /\ loadPromise = "pending" /\ loadPromise' = "fulfilled"
             /\ <<config, eventData, isInitialized>>' = <<config, eventData, isInitialized>>
             /\ calls' = calls /\ requests' = requests
       /\ (loadPromise # "rejected" /\ loadPromise' = "rejected") =>
             AdapterState' = AdapterState
       /\ (microtasks' # microtasks /\ calls' = calls) =>
             AdapterState' = AdapterState]_vars

\* C18 witness: the load succeeded, every call was made and a delivery has
\* completed, and the adapter's fields are those of construction with
\* snippetLoaded set.
C18_Witness ==
    /\ snippetLoaded
    /\ isInitialized
    /\ Len(calls) = MaxSends
    /\ \E i \in 1..Len(requests) : requests[i].state = "fulfilled"
    /\ \E i \in 1..Len(requests) : requests[i].state = "rejected"

\* Request i carries the serialized overlay of call c as the call was made.
BodyAsCalled(i, c) ==
    /\ Keys(requests[i].body) = {k \in OverlayKeys(c) : OverlayValue(c, k).t # "undefined"}
    /\ \A k \in Keys(requests[i].body) :
          Get(requests[i].body, k) = JSONText(OverlayValue(c, k))

\* C19: the POST of a sendEvent call is composed, serialized and issued
\* inside the call: in every state each call made with a valid event has
\* its request, requests stand in the order of their calls, and the body is
\* the serialized overlay of the data and the template as they were when
\* the call was made, whatever the caller has written to the data object
\* since; requests are only issued by sendEvent steps, for the call of that
\* step, and no later step (a caller's write, a completion in any order)
\* changes the body, the target or the call of a request.
C19_PostIssuedInsideCall ==
    /\ [](/\ \A c \in 1..Len(calls) :
                ValidEvent(calls[c]) => Cardinality(RequestsOf(c)) = 1
          /\ \A i, j \in 1..Len(requests) :
                i < j => requests[i].call < requests[j].call
          /\ \A i \in 1..Len(requests) : BodyAsCalled(i, requests[i].call))
    /\ [][/\ Len(requests') >= Len(requests)
          /\ \A i \in 1..Len(requests) :
                /\ requests'[i].body = requests[i].body
                /\ requests'[i].url = requests[i].url
                /\ requests'[i].call = requests[i].call
          /\ Len(requests') > Len(requests) =>
                /\ Len(calls') = Len(calls) + 1
                /\ Len(requests') = Len(requests) + 1
                /\ requests'[Len(requests')].call = Len(calls')]_vars

\* C19 witness: the caller has overwritten the custom field of the object
\* passed to the first call and the second request completed before the
\* first; the first request, still in flight, carries the field as passed.
C19_Witness ==
    /\ Len(requests) = 2
    /\ requests[1].state = "pending"
    /\ requests[2].state = "fulfilled"
    /\ calls[1].data = JsObject(<<Prop("custom", JsString("v"))>>)
    /\ calls[1].held = JsObject(<<Prop("custom", JsString("late"))>>)
    /\ Get(requests[1].body, "custom") = JSONText(JsString("v"))

\* The loader rejected the configuration: the load promise was rejected by
\* the executor itself, before any script element was appended.
ConfigRejected == loadPromise = "rejected" /\ head = <<>>

\* C20: in every reachable state snippetLoaded implies that isInitialized
\* is true, the sessionId is non-empty, the four commands of the instance
\* are in window._sift (after whatever the page had queued) and its script
\* element is in document.head and has loaded; snippetLoaded is false in
\* every state in which the loader rejected the configuration, and so in
\* every state of an adapter built with an empty sessionId.
C20_LoadedImpliesInstalled ==
    /\ snippetLoaded =>
          /\ isInitialized
          /\ ToBoolean(config.feid)
          /\ window_sift = sift0 \o _loadSnippetCommands(config)
          /\ Len(head) = 1
          /\ head[1].src = config.snippetSrc.s
          /\ "load" \in head[1].events
    /\ ConfigRejected => ~snippetLoaded
    /\ ~ToBoolean(config.feid) => ConfigRejected

\* C20 witness: the snippet has loaded on a page that had its own entry in
\* the command queue, and every sendEvent call has been made.
C20_Witness ==
    /\ snippetLoaded
    /\ sift0 # <<>>
    /\ Len(window_sift) = Len(sift0) + 4
    /\ Len(calls) = MaxSends

====
